---- MODULE Spec2Model ----
(***************************************************************************)
(* State-machine model of the 3D room layout editor: the placement engine  *)
(* (PlacementSystem), the selection and drag engine (SelectionSystem), the *)
(* shared observable state (AppState), the action buttons, the properties  *)
(* panel's duplicate, the asset loader and the layout store.               *)
(*                                                                         *)
(* Lengths are in centimetres (1 scene unit = 100), scale factors in       *)
(* permille, emissive intensities in tenths.  Every handler is an operator *)
(* from a program state (a record with one field per variable) to the      *)
(* program state it leaves behind, composed the way the handlers call each *)
(* other; an action commits the record a whole handler returns.            *)
(***************************************************************************)
EXTENDS Integers, Sequences, FiniteSets, TLC

VARIABLES
    objs,               \* heap of Object3D items: position, rotation, scale, meshes, userData
    mats,               \* heap of materials: emissive colour and intensity
    children,           \* FurnitureContainer.children
    appPlaced,          \* AppState.state.placedObjects
    psPlaced,           \* PlacementSystem.placedObjects
    appSelected,        \* AppState.state.selectedObject
    selSelected,        \* SelectionSystem.selectedObject
    panelSelected,      \* PropertiesPanel.selectedObject
    highlightHelper,    \* SelectionSystem.highlightHelper: the item the BoxHelper wraps
    originalMaterials,  \* SelectionSystem.originalMaterials: mesh -> saved emissive state
    originalColors,     \* PropertiesPanel.originalColors: item -> saved channels, mesh by mesh
    isDragging,         \* SelectionSystem.isDragging
    dragOffset,         \* SelectionSystem.dragOffset (x, z)
    controlsEnabled,    \* OrbitControls.enabled
    psIsLoading,        \* PlacementSystem.isLoading
    appIsLoading,       \* AppState.state.isLoading
    activeFurnitureType,\* AppState.state.activeFurnitureType
    cache,              \* FurnitureLoader.cache: the asset paths already loaded
    loading,            \* FurnitureLoader.loadingPromises: path -> the tasks awaiting it
    stored,             \* localStorage entry '3d-home-design-layout'
    last                \* history: the handler that ran last and what it decided

vars == <<objs, mats, children, appPlaced, psPlaced, appSelected, selSelected,
          panelSelected, highlightHelper, originalMaterials, originalColors, isDragging,
          dragOffset,
          controlsEnabled, psIsLoading, appIsLoading, activeFurnitureType, cache,
          loading, stored, last>>

----------------------------------------------------------------------------
(* Bounds of the model *)

\* Items that exist at once (placed, or still referenced by some list or field).
MaxItems == 2
\* Presses of the rotate shortcut per item.
MaxRot == 1

----------------------------------------------------------------------------
(* Program constants *)

RoomWidth == 1000
RoomDepth == 1000
PlacementMargin == 50
DragMargin == 30
selectedEmissive == 13056
HighlightIntensity == 5
DefaultEmissiveIntensity == 10
DuplicateOffset == 50
MaxScale == 3000
MinScale == 100
ScaleThreshold == 30

Null == 0
Undefined == -1
EmissiveBlack == 0
EmissiveGlow == 16763904

ObjIds == 1 .. MaxItems

----------------------------------------------------------------------------
(* Item catalog and geometry *)

\* A catalog entry (furnitureData): id, asset path, and the vocabulary words its
\* lower-cased display name contains (name.includes(w) is w \in words).
CatChair == [id |-> 12, path |-> "chair01", words |-> {"chair"}]
CatTable == [id |-> 31, path |-> "table01", words |-> {"table"}]
CatRug == [id |-> 40, path |-> "rug01",   words |-> {}]

Catalog == {CatChair, CatTable, CatRug}
\* An entry of the catalog data without a display name (name is undefined); it
\* names the chair's asset.
CatNameless == [id |-> 50, path |-> "chair01"]
\* furnitureData.name.toLowerCase() throws a TypeError for such an entry.
Nameless(fd) == "words" \notin DOMAIN fd
\* activeFurnitureType when no item is active (null).
NoFurnitureType == [id |-> 0]
Paths == {c.path : c \in Catalog}

\* Materials of the assets, shared by every clone of the cached scene.
AssetMatIds == 1 .. 4
MatIds == 1 .. (4 + MaxItems * 8)

\* The scene a resolved load returns (gltf.scene.clone()): its meshes reference the
\* cached scene's materials and carry the node names of the file; the geometry is the file's (half-extents gx, gz of the footprint,
\* vertical extent minY..maxY: the chair's geometry starts at its origin, the
\* table's below it, the rug's above it).
AssetScene(path) ==
    CASE path = "chair01" -> [meshes |-> <<1>>, names |-> <<"Chair">>,
                              gx |-> 30, gz |-> 30, minY |-> 0, maxY |-> 90]
      [] path = "table01" -> [meshes |-> <<2, 3>>, names |-> <<"Top", "Legs">>,
                              gx |-> 60, gz |-> 40, minY |-> -5, maxY |-> 70]
      [] OTHER            -> [meshes |-> <<4>>, names |-> <<"Rug">>,
                              gx |-> 200, gz |-> 150, minY |-> 10, maxY |-> 30]

\* new THREE.MeshStandardMaterial({color, roughness, metalness}).  A colour is
\* modelled by its 24-bit hex (the precision of getHexString), metalness, roughness
\* and opacity in hundredths.
MeshStandardMaterial(color, roughness, metalness) ==
    [emissive |-> EmissiveBlack, emissiveIntensity |-> DefaultEmissiveIntensity,
     color |-> color, metalness |-> metalness, roughness |-> roughness,
     opacity |-> 100, transparent |-> FALSE, isCloned |-> FALSE]

\* The materials as the asset files define them: material 3 is unlit (no emissive
\* channel), material 2 glows, the rug's material is alpha-blended (transparent)
\* at full opacity.
AssetMaterial(m) ==
    CASE m = 2 -> [MeshStandardMaterial(14596231, 80, 0) EXCEPT !.emissive = EmissiveGlow]
      [] m = 3 -> [MeshStandardMaterial(6111287, 100, 0) EXCEPT
                      !.emissive = Undefined, !.emissiveIntensity = Undefined]
      [] m = 1 -> MeshStandardMaterial(9127187, 90, 0)
      [] OTHER -> [MeshStandardMaterial(11674146, 100, 0) EXCEPT !.transparent = TRUE]

\* PlacementSystem._createPrimitiveFallback: the type from the display name.
PrimitiveType(fd) ==
    IF "chair" \in fd.words \/ "arm" \in fd.words THEN "chair"
    ELSE IF "table" \in fd.words THEN "table"
    ELSE IF "couch" \in fd.words \/ "sofa" \in fd.words THEN "couch"
    ELSE IF "bed" \in fd.words THEN "bed"
    ELSE IF "cabinet" \in fd.words \/ "cupboard" \in fd.words THEN "cabinet"
    ELSE "default"

\* PlacementSystem._createPrimitiveByType: the shape built (class), its sub-meshes
\* (by the material each uses, numbered in order of creation) and the extent of the
\* group.
PrimitiveShape(type) ==
    CASE type = "chair" -> [class |-> "chair", meshes |-> <<1, 1, 2, 2, 2, 2>>,
                            gx |-> 25, gz |-> 25, minY |-> 0, maxY |-> 95]
      [] type = "table" -> [class |-> "table", meshes |-> <<1, 2, 2, 2, 2>>,
                            gx |-> 60, gz |-> 40, minY |-> 0, maxY |-> 78]
      [] type = "couch" -> [class |-> "couch", meshes |-> <<1, 1, 1, 1>>,
                            gx |-> 100, gz |-> 45, minY |-> 10, maxY |-> 80]
      [] type = "bed" -> [class |-> "bed", meshes |-> <<1, 2, 3>>,
                          gx |-> 95, gz |-> 115, minY |-> 0, maxY |-> 100]
      [] type = "cabinet" -> [class |-> "cabinet", meshes |-> <<1, 2, 2>>,
                              gx |-> 40, gz |-> 26, minY |-> 0, maxY |-> 120]
      [] OTHER -> [class |-> "generic", meshes |-> <<1>>,
                   gx |-> 30, gz |-> 30, minY |-> 0, maxY |-> 60]

\* One channel of new THREE.Color().setHSL(hue / 360, 0.6, 0.5) at t degrees.
HslChannel(t) ==
    LET d == t % 360
    IN  IF d < 60 THEN 51 + (153 * d + 30) \div 60
        ELSE IF d < 180 THEN 204
        ELSE IF d < 240 THEN 51 + (153 * (240 - d) + 30) \div 60
        ELSE 51

\* The placeholder colour of a catalog id: hue = (id * 37) % 360.
HslColor(id) ==
    LET hue == (id * 37) % 360
    IN  HslChannel(hue + 120) * 65536 + HslChannel(hue) * 256 + HslChannel(hue + 240)

\* color.clone().multiplyScalar(0.8)
MultiplyScalar08(c) ==
    LET ch(v) == (v * 8 + 5) \div 10
    IN  ch(c \div 65536) * 65536 + ch((c \div 256) % 256) * 256 + ch(c % 256)

\* The materials _createPrimitiveByType creates for a type, in order of creation.
PrimitiveMaterials(type, fd) ==
    LET material == MeshStandardMaterial(HslColor(fd.id), 70, 10)
    IN  CASE type = "chair" -> <<material, MeshStandardMaterial(4868682, 100, 0)>>
          [] type = "table" -> <<material, MeshStandardMaterial(6111287, 100, 0)>>
          [] type = "bed" -> <<MeshStandardMaterial(16119260, 100, 0),
                               MeshStandardMaterial(9127187, 100, 0),
                               MeshStandardMaterial(9127187, 100, 0)>>
          [] type = "cabinet" ->
                <<material, MeshStandardMaterial(MultiplyScalar08(HslColor(fd.id)), 100, 0)>>
          [] OTHER -> <<material>>

----------------------------------------------------------------------------
(* Program state as a record, heaps *)

NoObj == [live |-> FALSE]
NoMat == [live |-> FALSE]

\* The program state the handlers work on; ret collects what the loadLayout calls
\* that return during the handler return.
Cur ==
    [objs |-> objs, mats |-> mats, children |-> children, appPlaced |-> appPlaced,
     psPlaced |-> psPlaced, appSelected |-> appSelected, selSelected |-> selSelected,
     panelSelected |-> panelSelected, highlightHelper |-> highlightHelper,
     originalMaterials |-> originalMaterials, originalColors |-> originalColors,
     isDragging |-> isDragging,
     dragOffset |-> dragOffset, controlsEnabled |-> controlsEnabled,
     psIsLoading |-> psIsLoading, appIsLoading |-> appIsLoading,
     activeFurnitureType |-> activeFurnitureType, cache |-> cache,
     loading |-> loading, stored |-> stored, last |-> last, ret |-> <<>>]

Range(q) == {q[i] : i \in 1 .. Len(q)}

Remove(q, o) == SelectSeq(q, LAMBDA e : e # o)

\* Array.prototype.splice(indexOf(o), 1): removes the first occurrence only.
RECURSIVE SpliceFirst(_, _)
SpliceFirst(q, o) ==
    IF q = <<>> THEN <<>>
    ELSE IF Head(q) = o THEN Tail(q)
    ELSE <<Head(q)>> \o SpliceFirst(Tail(q), o)

\* The items placement tasks and layout tasks do not reference: only live objects do.
ObjRefs(s) ==
    Range(s.children) \cup Range(s.appPlaced) \cup Range(s.psPlaced)
        \cup ({s.appSelected, s.selSelected, s.panelSelected, s.highlightHelper} \ {Null})
        \cup {k[1] : k \in DOMAIN s.originalMaterials}
        \cup DOMAIN s.originalColors

MatRefs(s) ==
    AssetMatIds \cup
    UNION {Range(s.objs[o].meshes) : o \in {i \in ObjIds : s.objs[i].live}}

\* Object identity: a new object takes the least identity no reference holds.
FreshObj(s) == CHOOSE o \in ObjIds : o \notin ObjRefs(s) /\ \A p \in ObjIds : p \notin ObjRefs(s) => o <= p

HasFreshObj(s) == \E o \in ObjIds : o \notin ObjRefs(s)

\* The k-th material identity no mesh references.
FreeMats(s) == {m \in MatIds : m \notin MatRefs(s)}

RECURSIVE NthLeast(_, _)
NthLeast(S, k) ==
    LET least == CHOOSE m \in S : \A n \in S : m <= n
    IN  IF k = 1 THEN least ELSE NthLeast(S \ {least}, k - 1)

FreshMat(s, k) == NthLeast(FreeMats(s), k)

\* Garbage collection: an object or material nothing references is gone.
Collect(s) ==
    LET s1 == [s EXCEPT !.objs = [o \in ObjIds |-> IF o \in ObjRefs(s) THEN s.objs[o] ELSE NoObj]]
    IN  [s1 EXCEPT !.mats = [m \in MatIds |-> IF m \in MatRefs(s1) THEN s1.mats[m] ELSE NoMat]]

Commit(s) ==
    \E c \in {Collect(s)} :
        /\ objs' = c.objs
        /\ mats' = c.mats
        /\ children' = c.children
        /\ appPlaced' = c.appPlaced
        /\ psPlaced' = c.psPlaced
        /\ appSelected' = c.appSelected
        /\ selSelected' = c.selSelected
        /\ panelSelected' = c.panelSelected
        /\ highlightHelper' = c.highlightHelper
        /\ originalMaterials' = c.originalMaterials
        /\ originalColors' = c.originalColors
        /\ isDragging' = c.isDragging
        /\ dragOffset' = c.dragOffset
        /\ controlsEnabled' = c.controlsEnabled
        /\ psIsLoading' = c.psIsLoading
        /\ appIsLoading' = c.appIsLoading
        /\ activeFurnitureType' = c.activeFurnitureType
        /\ cache' = c.cache
        /\ loading' = c.loading
        /\ stored' = c.stored
        /\ last' = c.last

----------------------------------------------------------------------------
(* SelectionSystem: highlight and emissive tint *)

Meshes(s, o) == s.objs[o].meshes

\* _removeHighlight
_removeHighlight(s) == [s EXCEPT !.highlightHelper = Null]

\* _createHighlight: drops the old BoxHelper, wraps the object in a new one.
_createHighlight(s, o) == [_removeHighlight(s) EXCEPT !.highlightHelper = o]

\* One step of _applyHighlightMaterial's traverse: mesh i of object o.  The saved
\* entry is keyed by the mesh (child.uuid), its content read from the mesh's
\* material as it is when the traverse reaches the mesh.
ApplyHighlightToMesh(s, o, i) ==
    LET m == Meshes(s, o)[i]
        key == <<o, i>>
        saved == [emissive |-> s.mats[m].emissive,
                  emissiveIntensity |-> s.mats[m].emissiveIntensity]
        om == IF key \in DOMAIN s.originalMaterials
              THEN s.originalMaterials
              ELSE [k \in DOMAIN s.originalMaterials \cup {key} |->
                       IF k = key THEN saved ELSE s.originalMaterials[k]]
        s1 == [s EXCEPT !.originalMaterials = om]
    IN  IF s.mats[m].emissive # Undefined
        THEN [s1 EXCEPT !.mats[m].emissive = selectedEmissive,
                        !.mats[m].emissiveIntensity = HighlightIntensity]
        ELSE s1

RECURSIVE ApplyHighlightFrom(_, _, _)
ApplyHighlightFrom(s, o, i) ==
    IF i > Len(Meshes(s, o)) THEN s
    ELSE ApplyHighlightFrom(ApplyHighlightToMesh(s, o, i), o, i + 1)

\* _applyHighlightMaterial
_applyHighlightMaterial(s, o) == ApplyHighlightFrom(s, o, 1)

\* original.emissiveIntensity || 0
OrZero(v) == IF v = Undefined THEN 0 ELSE v

\* One step of _restoreOriginalMaterials' traverse.
RestoreMesh(s, o, i) ==
    LET m == Meshes(s, o)[i]
        key == <<o, i>>
    IN  IF /\ key \in DOMAIN s.originalMaterials
           /\ s.mats[m].emissive # Undefined
           /\ s.originalMaterials[key].emissive # Undefined
        THEN [s EXCEPT !.mats[m].emissive = s.originalMaterials[key].emissive,
                       !.mats[m].emissiveIntensity =
                            OrZero(s.originalMaterials[key].emissiveIntensity)]
        ELSE s

RECURSIVE RestoreFrom(_, _, _)
RestoreFrom(s, o, i) ==
    IF i > Len(Meshes(s, o)) THEN s
    ELSE RestoreFrom(RestoreMesh(s, o, i), o, i + 1)

\* _restoreOriginalMaterials: restores mesh by mesh, then clears the whole map.
_restoreOriginalMaterials(s, o) ==
    [RestoreFrom(s, o, 1) EXCEPT !.originalMaterials = <<>>]

----------------------------------------------------------------------------
(* AppState and its subscribers *)

\* _updateSelection following external selections only, not external deselections.
_updateSelection_ignoresNull(s, obj) ==
    IF obj = s.selSelected \/ obj = Null THEN s
    ELSE LET s1 == IF s.selSelected # Null
                   THEN LET r == _restoreOriginalMaterials(_removeHighlight(s), s.selSelected)
                        IN  [r EXCEPT !.objs[s.selSelected].isSelected = FALSE]
                   ELSE s
             s2 == [s1 EXCEPT !.selSelected = obj, !.objs[obj].isSelected = TRUE]
         IN  _applyHighlightMaterial(_createHighlight(s2, obj), obj)

\* SelectionSystem._updateSelection: the subscriber of 'selectedObject'.
_updateSelection(s, obj) ==
    IF obj = s.selSelected THEN s
    ELSE IF obj # Null
    THEN LET s1 == IF s.selSelected # Null
                   THEN LET r == _restoreOriginalMaterials(_removeHighlight(s), s.selSelected)
                        IN  [r EXCEPT !.objs[s.selSelected].isSelected = FALSE]
                   ELSE s
             s2 == [s1 EXCEPT !.selSelected = obj, !.objs[obj].isSelected = TRUE]
         IN  _applyHighlightMaterial(_createHighlight(s2, obj), obj)
    ELSE IF s.selSelected # Null
    THEN LET r == _restoreOriginalMaterials(_removeHighlight(s), s.selSelected)
         IN  [r EXCEPT !.objs[s.selSelected].isSelected = FALSE, !.selSelected = Null]
    ELSE s

\* PropertiesPanel's subscriber of 'selectedObject'.
PanelOnSelected(s, obj) == [s EXCEPT !.panelSelected = obj]

\* AppState.set('selectedObject', v): writes, then notifies the subscribers in the
\* order they subscribed (status bar, properties panel, selection engine).
SetSelectedObject(s, v) ==
    _updateSelection(PanelOnSelected([s EXCEPT !.appSelected = v], v), v)

\* AppState.addPlacedObject
addPlacedObject(s, o) == [s EXCEPT !.appPlaced = Append(@, o)]

\* AppState.removePlacedObject
removePlacedObject(s, o) == [s EXCEPT !.appPlaced = SpliceFirst(@, o)]

\* AppState.clearPlacedObjects
clearPlacedObjects(s) ==
    LET s1 == [s EXCEPT !.appPlaced = <<>>, !.appSelected = Null]
    IN  _updateSelection(PanelOnSelected(s1, Null), Null)

----------------------------------------------------------------------------
(* SelectionSystem: select, deselect, delete *)

\* deselect
deselect(s) ==
    IF s.selSelected = Null THEN s
    ELSE LET r == _restoreOriginalMaterials(_removeHighlight(s), s.selSelected)
             r1 == [r EXCEPT !.objs[s.selSelected].isSelected = FALSE, !.selSelected = Null]
         IN  SetSelectedObject(r1, Null)

\* select without the deselect of the item selected before.
select_keepsPrevious(s, object) ==
    LET s2 == [s EXCEPT !.selSelected = object, !.objs[object].isSelected = TRUE]
        s3 == _applyHighlightMaterial(_createHighlight(s2, object), object)
    IN  SetSelectedObject(s3, object)

\* select
select(s, object) ==
    LET s1 == IF s.selSelected # Null /\ s.selSelected # object THEN deselect(s) ELSE s
        s2 == [s1 EXCEPT !.selSelected = object, !.objs[object].isSelected = TRUE]
        s3 == _applyHighlightMaterial(_createHighlight(s2, object), object)
    IN  SetSelectedObject(s3, object)

\* SelectionSystem._deleteSelected without the deselect.
_deleteSelected_keepsSelection(s) ==
    IF s.selSelected = Null THEN s
    ELSE LET objectToDelete == s.selSelected
             s2 == [s EXCEPT !.children = Remove(@, objectToDelete)]
         IN  removePlacedObject(s2, objectToDelete)

\* SelectionSystem._deleteSelected (Delete / Backspace key)
_deleteSelected(s) ==
    IF s.selSelected = Null THEN s
    ELSE LET objectToDelete == s.selSelected
             s1 == deselect(s)
             s2 == [s1 EXCEPT !.children = Remove(@, objectToDelete)]
         IN  removePlacedObject(s2, objectToDelete)

----------------------------------------------------------------------------
(* Geometry: footprint, bounds, scale *)

Max(a, b) == IF a >= b THEN a ELSE b
Min(a, b) == IF a <= b THEN a ELSE b
Abs(a) == IF a >= 0 THEN a ELSE -a

NoPoint == <<>>

\* Box3.setFromObject(o).getSize() / 2 on x and z: the world-space footprint of the
\* item under its scale and its rotation about y (steps of 45 degrees; cos 45 and
\* sin 45 as 7071 / 10000).
HalfSize(ob) ==
    LET hx == (ob.gx * ob.scale) \div 1000
        hz == (ob.gz * ob.scale) \div 1000
        d  == ((hx + hz) * 7071) \div 10000
    IN  IF ob.rot % 4 = 0 THEN [x |-> hx, z |-> hz]
        ELSE IF ob.rot % 4 = 2 THEN [x |-> hz, z |-> hx]
        ELSE [x |-> d, z |-> d]

\* _isWithinBounds with strict comparisons.
_isWithinBounds_strict(position) ==
    LET halfWidth == (RoomWidth \div 2) - PlacementMargin
        halfDepth == (RoomDepth \div 2) - PlacementMargin
    IN  /\ position[1] > -halfWidth /\ position[1] < halfWidth
        /\ position[2] > -halfDepth /\ position[2] < halfDepth

\* PlacementSystem._isWithinBounds(position), margin = 0.5
_isWithinBounds(position) ==
    LET halfWidth == (RoomWidth \div 2) - PlacementMargin
        halfDepth == (RoomDepth \div 2) - PlacementMargin
    IN  /\ position[1] >= -halfWidth /\ position[1] <= halfWidth
        /\ position[2] >= -halfDepth /\ position[2] <= halfDepth

\* The clamp of one coordinate in SelectionSystem._constrainToRoom.
ClampAxis(half, objectHalf, v) == Max(-half + objectHalf, Min(half - objectHalf, v))

\* SelectionSystem._constrainToRoom(position)
_constrainToRoom(s, position) ==
    LET halfWidth == (RoomWidth \div 2) - DragMargin
        halfDepth == (RoomDepth \div 2) - DragMargin
        size == IF s.selSelected # Null THEN HalfSize(s.objs[s.selSelected])
                ELSE [x |-> 0, z |-> 0]
    IN  <<ClampAxis(halfWidth, size.x, position[1]),
          ClampAxis(halfDepth, size.z, position[2])>>

\* The target height by display name in PlacementSystem._applyScale.
TargetHeight(fd) ==
    IF "chair" \in fd.words THEN 90
    ELSE IF "table" \in fd.words THEN 75
    ELSE IF "couch" \in fd.words \/ "sofa" \in fd.words THEN 80
    ELSE IF "bed" \in fd.words THEN 60
    ELSE IF "cabinet" \in fd.words \/ "cupboard" \in fd.words THEN 120
    ELSE IF "tv" \in fd.words THEN 60
    ELSE IF "fridge" \in fd.words THEN 180
    ELSE IF "wardrobe" \in fd.words THEN 200
    ELSE 100

\* PlacementSystem._applyScale: the uniform scale, then the lift onto the floor.
_applyScale(ob, fd) ==
    LET currentHeight == ob.maxY - ob.minY
        scale == IF currentHeight > 1 /\ Abs(currentHeight - TargetHeight(fd)) > ScaleThreshold
                 THEN Max(MinScale, Min(MaxScale, (TargetHeight(fd) * 1000) \div currentHeight))
                 ELSE ob.scale
        minY == (ob.minY * scale) \div 1000
    IN  [ob EXCEPT !.scale = scale, !.y = IF minY < 0 THEN -minY ELSE ob.y]

----------------------------------------------------------------------------
(* Objects: loaded scenes, placeholders, clones *)

NewObject(shape, meshes, fd, isPlaceholder) ==
    [live |-> TRUE, id |-> 0, fd |-> fd, furniturePath |-> "", x |-> 0, y |-> 0, z |-> 0, rot |-> 0, scale |-> 1000,
     gx |-> shape.gx, gz |-> shape.gz, minY |-> shape.minY, maxY |-> shape.maxY,
     meshes |-> meshes, names |-> shape.names, class |-> shape.class,
     isSelected |-> FALSE, placeholder |-> isPlaceholder]

\* gltf.scene.clone() of the scene loaded from path: new meshes that reference the
\* cached scene's materials.
CloneScene(path, fd) ==
    NewObject(AssetScene(path) @@ [class |-> "asset"], AssetScene(path).meshes, fd, FALSE)

\* The clone of the scene of the catalog entry's own asset.
CloneAssetScene(fd) == CloneScene(fd.path, fd)

\* A placeholder group: new MeshStandardMaterial instances, shared by the sub-meshes
\* the way the constructor calls share them; new THREE.Mesh leaves name empty.
PrimitiveMeshes(s, shape) == [i \in 1 .. Len(shape.meshes) |-> FreshMat(s, shape.meshes[i])]

Unnamed(shape) == shape @@ [names |-> [i \in 1 .. Len(shape.meshes) |-> ""]]

\* The materials of a new placeholder, mesh by mesh: created is what the
\* constructor calls made, in order of creation.
MeshMaterials(shape, created) == [i \in 1 .. Len(shape.meshes) |-> created[shape.meshes[i]]]

\* Enters the materials a new group brought (one per mesh, meshes that share a
\* material bring the same) into the heap.
WithNewMaterials(s, meshes, brought) ==
    [s EXCEPT !.mats = [m \in MatIds |->
        IF m \in Range(meshes)
        THEN brought[CHOOSE i \in 1 .. Len(meshes) : meshes[i] = m]
        ELSE s.mats[m]]]

\* PlacementSystem._createPrimitiveFallback / _createPrimitiveByType
_createPrimitiveFallback(s, fd) ==
    NewObject(Unnamed(PrimitiveShape(PrimitiveType(fd))),
              PrimitiveMeshes(s, PrimitiveShape(PrimitiveType(fd))), fd, TRUE)

\* StorageManager._createFallbackPrimitive(type, furnitureData): its own vocabulary
\* and its own shapes.  With no word of the vocabulary in the name the type stays
\* the saved furnitureType (the display name), which the switch sends to default.
StorageFallbackType(fd) ==
    IF "chair" \in fd.words \/ "arm" \in fd.words THEN "chair"
    ELSE IF "table" \in fd.words THEN "table"
    ELSE IF "couch" \in fd.words \/ "sofa" \in fd.words THEN "couch"
    ELSE IF "bed" \in fd.words THEN "bed"
    ELSE IF "cabinet" \in fd.words \/ "wardrobe" \in fd.words THEN "cabinet"
    ELSE "default"

\* The switch has no case for bed or cabinet: they get the default box.
StorageFallbackShape(type) ==
    CASE type = "chair" -> [class |-> "chair", meshes |-> <<1, 1, 2, 2, 2, 2>>,
                            gx |-> 25, gz |-> 25, minY |-> 0, maxY |-> 95]
      [] type = "table" -> [class |-> "table", meshes |-> <<1, 1, 1, 1, 1>>,
                            gx |-> 60, gz |-> 40, minY |-> 0, maxY |-> 79]
      [] type = "couch" -> [class |-> "couch", meshes |-> <<1, 1, 1, 1>>,
                            gx |-> 100, gz |-> 45, minY |-> 5, maxY |-> 90]
      [] OTHER -> [class |-> "generic", meshes |-> <<1>>,
                   gx |-> 40, gz |-> 40, minY |-> 0, maxY |-> 50]

\* typeColors[furnitureType] || typeColors.default, and the materials created.
StorageFallbackMaterials(type) ==
    LET color == CASE type = "chair" -> 9127187
                   [] type = "table" -> 14596231
                   [] type = "couch" -> 4286945
                   [] type = "bed" -> 9662683
                   [] type = "cabinet" -> 3100495
                   [] OTHER -> 7372944
        material == MeshStandardMaterial(color, 70, 10)
    IN  IF type = "chair" THEN <<material, MeshStandardMaterial(3355443, 100, 0)>>
        ELSE <<material>>

_createFallbackPrimitive(s, fd) ==
    NewObject(Unnamed(StorageFallbackShape(StorageFallbackType(fd))),
              PrimitiveMeshes(s, StorageFallbackShape(StorageFallbackType(fd))), fd, TRUE)

\* userData.id = Date.now() + Math.random(): a number no live object carries.
FreshId(s) ==
    CHOOSE n \in 1 .. MaxItems + 1 :
        /\ \A o \in ObjIds : s.objs[o].live => s.objs[o].id # n
        /\ \A m \in 1 .. MaxItems + 1 :
              (\A o \in ObjIds : s.objs[o].live => s.objs[o].id # m) => n <= m

\* Adds object ob to the heap under a new identity o, with the materials it brought
\* (none when its meshes reference the cached scene's materials).
Allocate(s, o, ob, brought) ==
    LET s1 == IF brought = <<>> THEN s ELSE WithNewMaterials(s, ob.meshes, brought)
    IN  [s1 EXCEPT !.objs[o] = ob]

----------------------------------------------------------------------------
(* PlacementSystem *)

\* _placeFurniture rethrowing the failure of its load: the flags drop, nothing is
\* inserted.
PlaceAfterLoad_rethrows(s, fd, position, resolved) ==
    LET o == FreshObj(s)
        placed == _applyScale([CloneAssetScene(fd) EXCEPT !.x = position[1],
                                                          !.z = position[2], !.y = 0], fd)
        s1 == Allocate(s, o, [placed EXCEPT !.id = FreshId(s), !.isSelected = FALSE], <<>>)
        s2 == [s1 EXCEPT !.children = Append(@, o), !.psPlaced = Append(@, o)]
        s3 == IF resolved THEN addPlacedObject(s2, o) ELSE s
    IN  [s3 EXCEPT !.psIsLoading = FALSE, !.appIsLoading = FALSE]

\* _placeFurniture from the point the load has settled (resolved or rejected) to
\* the end of its finally block.  For an entry without a name the insertion step
\* throws before anything is inserted (in _applyScale after a resolved load, in
\* _createPrimitiveFallback after a rejected one); the outer catch logs and the
\* finally block runs.
PlaceAfterLoad(s, fd, position, resolved) ==
    LET o == FreshObj(s)
        model == IF resolved THEN CloneAssetScene(fd) ELSE _createPrimitiveFallback(s, fd)
        placed == _applyScale([model EXCEPT !.x = position[1], !.z = position[2], !.y = 0], fd)
        brought == IF resolved THEN <<>>
                   ELSE MeshMaterials(PrimitiveShape(PrimitiveType(fd)),
                                      PrimitiveMaterials(PrimitiveType(fd), fd))
        s1 == Allocate(s, o, [placed EXCEPT !.id = FreshId(s), !.isSelected = FALSE], brought)
        s2 == [s1 EXCEPT !.children = Append(@, o), !.psPlaced = Append(@, o)]
        s3 == IF Nameless(fd) THEN s ELSE addPlacedObject(s2, o)
    IN  [s3 EXCEPT !.psIsLoading = FALSE, !.appIsLoading = FALSE]

\* furnitureLoader.load(path) as awaited by a task: a cached path resolves within
\* the same turn; otherwise the task waits for the load of the path, which it starts
\* when none is pending.
AwaitLoad(s, path, task) == [s EXCEPT !.loading[path] = Append(@, task)]

\* _placeFurniture lowering the flags at the end of its try block instead of in a
\* finally block.
_placeFurniture_noFinally(s, fd, position) ==
    LET s1 == [s EXCEPT !.psIsLoading = TRUE, !.appIsLoading = TRUE]
    IN  IF fd.path \in s1.cache
        THEN IF Nameless(fd) THEN s1 ELSE PlaceAfterLoad(s1, fd, position, TRUE)
        ELSE AwaitLoad(s1, fd.path, [kind |-> "place", fd |-> fd, position |-> position])

\* _placeFurniture(furnitureData, position)
_placeFurniture(s, fd, position) ==
    LET s1 == [s EXCEPT !.psIsLoading = TRUE, !.appIsLoading = TRUE]
    IN  IF fd.path \in s1.cache
        THEN PlaceAfterLoad(s1, fd, position, TRUE)
        ELSE AwaitLoad(s1, fd.path, [kind |-> "place", fd |-> fd, position |-> position])

\* The checks of _onDoubleClick without the one of isLoading.
DoubleClickVerdict_noLoadingGuard(s, point) ==
    IF s.activeFurnitureType = NoFurnitureType THEN "no_active"
    ELSE IF point = NoPoint THEN "no_floor"
    ELSE IF ~_isWithinBounds(point) THEN "out_of_bounds"
    ELSE "accepted"

\* Why _onDoubleClick returns early, or "accepted".
DoubleClickVerdict(s, point) ==
    IF s.activeFurnitureType = NoFurnitureType THEN "no_active"
    ELSE IF s.psIsLoading THEN "loading"
    ELSE IF point = NoPoint THEN "no_floor"
    ELSE IF ~_isWithinBounds(point) THEN "out_of_bounds"
    ELSE "accepted"

\* _onDoubleClick raising the loading flag before its checks.
_onDoubleClick_flagsFirst(s, point) ==
    IF DoubleClickVerdict(s, point) = "accepted"
    THEN _placeFurniture(s, s.activeFurnitureType, point)
    ELSE IF s.activeFurnitureType # NoFurnitureType
    THEN [s EXCEPT !.appIsLoading = TRUE]
    ELSE s

\* _onDoubleClick(event): point is the floor-plane intersection of the pointer ray.
_onDoubleClick(s, point) ==
    IF DoubleClickVerdict(s, point) = "accepted"
    THEN _placeFurniture(s, s.activeFurnitureType, point)
    ELSE s

\* PlacementSystem.removeObject
removeObject(s, object) ==
    IF object \in Range(s.psPlaced)
    THEN removePlacedObject([s EXCEPT !.psPlaced = SpliceFirst(@, object),
                                      !.children = Remove(@, object)], object)
    ELSE s

\* PlacementSystem.clearAll: removeObject for each entry of a copy of the list.
clearAll(s) ==
    LET RECURSIVE RemoveEach(_, _)
        RemoveEach(s1, list) ==
            IF list = <<>> THEN s1
            ELSE RemoveEach(removeObject(s1, Head(list)), Tail(list))
    IN  RemoveEach(s, s.psPlaced)

----------------------------------------------------------------------------
(* PropertiesPanel: appearance *)

\* The channels of a material the panel and the store read.
Channels(mat) ==
    [color |-> mat.color, metalness |-> mat.metalness,
     roughness |-> mat.roughness, opacity |-> mat.opacity]

\* _storeOriginalColors: one snapshot per item, taken at its first edit.
_storeOriginalColors(s) ==
    LET o == s.panelSelected
    IN  IF o = Null \/ o \in DOMAIN s.originalColors THEN s
        ELSE [s EXCEPT !.originalColors =
                [k \in DOMAIN s.originalColors \cup {o} |->
                    IF k = o THEN [i \in DOMAIN Meshes(s, o) |-> Channels(s.mats[Meshes(s, o)[i]])]
                    ELSE s.originalColors[k]]]

\* child.material = child.material.clone(); child.material._isCloned = true
CloneMaterial(s, o, i) ==
    LET n == FreshMat(s, 1)
    IN  [s EXCEPT !.mats[n] = [s.mats[Meshes(s, o)[i]] EXCEPT !.isCloned = TRUE],
                  !.objs[o].meshes[i] = n]

\* One step of _applyColor's traverse: mesh i of object o.
ApplyColorToMesh(s, o, i, color) ==
    LET s1 == IF s.mats[Meshes(s, o)[i]].isCloned THEN s ELSE CloneMaterial(s, o, i)
    IN  [s1 EXCEPT !.mats[Meshes(s1, o)[i]].color = color]

RECURSIVE ApplyColorFrom(_, _, _, _)
ApplyColorFrom(s, o, i, color) ==
    IF i > Len(Meshes(s, o)) THEN s
    ELSE ApplyColorFrom(ApplyColorToMesh(s, o, i, color), o, i + 1, color)

\* _applyColor(hexColor)
_applyColor(s, hexColor) ==
    IF s.panelSelected = Null THEN s
    ELSE ApplyColorFrom(_storeOriginalColors(s), s.panelSelected, 1, hexColor)

\* The presets of _applyMaterial, in hundredths; an unknown preset is standard.
MaterialSettings(preset) ==
    CASE preset = "glossy" -> [metalness |-> 30, roughness |-> 20]
      [] preset = "matte" -> [metalness |-> 0, roughness |-> 100]
      [] preset = "metallic" -> [metalness |-> 90, roughness |-> 30]
      [] OTHER -> [metalness |-> 10, roughness |-> 80]

\* One step of the traverse of _applyMaterial and of _applyOpacity: mesh i of
\* object o gets a material of its own unless it has one, and the fields of
\* written are assigned to it.
WriteToMesh(s, o, i, written) ==
    LET s1 == IF s.mats[Meshes(s, o)[i]].isCloned THEN s ELSE CloneMaterial(s, o, i)
    IN  [s1 EXCEPT !.mats[Meshes(s1, o)[i]] = written @@ @]

RECURSIVE WriteFrom(_, _, _, _)
WriteFrom(s, o, i, written) ==
    IF i > Len(Meshes(s, o)) THEN s
    ELSE WriteFrom(WriteToMesh(s, o, i, written), o, i + 1, written)

\* _applyMaterial(preset)
_applyMaterial(s, preset) ==
    IF s.panelSelected = Null THEN s
    ELSE WriteFrom(_storeOriginalColors(s), s.panelSelected, 1, MaterialSettings(preset))

\* _applyOpacity with the comparison the other way round.
_applyOpacity_flagInverted(s, opacity) ==
    IF s.panelSelected = Null THEN s
    ELSE WriteFrom(s, s.panelSelected, 1,
                   [transparent |-> opacity >= 100, opacity |-> opacity])

\* _applyOpacity(opacity): no snapshot is taken here.
_applyOpacity(s, opacity) ==
    IF s.panelSelected = Null THEN s
    ELSE WriteFrom(s, s.panelSelected, 1,
                   [transparent |-> opacity < 100, opacity |-> opacity])

\* _resetColor's traverse from mesh i of object o on: the snapshot entry of the
\* mesh (found by the uuid of the mesh) is copied back to its present material.
RECURSIVE ResetFrom(_, _, _)
ResetFrom(s, o, i) ==
    IF i > Len(Meshes(s, o)) THEN s
    ELSE LET orig == s.originalColors[o][i]
             s1 == [s EXCEPT !.mats[Meshes(s, o)[i]] =
                      [@ EXCEPT !.color = orig.color, !.metalness = orig.metalness,
                                !.roughness = orig.roughness, !.opacity = orig.opacity,
                                !.transparent = orig.opacity < 100]]
         IN  ResetFrom(s1, o, i + 1)

\* _resetColor: the snapshot stays in originalColors.
_resetColor(s) ==
    IF s.panelSelected = Null \/ s.panelSelected \notin DOMAIN s.originalColors THEN s
    ELSE ResetFrom(s, s.panelSelected, 1)

----------------------------------------------------------------------------
(* StorageManager *)

\* The stored entry: absent, or a string that parses as JSON or does not, with an
\* objects list or without one.
NoDoc == [present |-> FALSE, parses |-> FALSE, listed |-> FALSE, objects |-> <<>>]

\* childName: child.name || child.uuid.  A uuid is a string that no mesh name
\* and no uuid drawn later equals.
ChildName(name) == IF name # "" THEN name ELSE "uuid"

\* _serializeMaterialMods: one entry per mesh whose material is marked _isCloned;
\* null (no entry) when there is none.
_serializeMaterialMods(s, ob) ==
    LET edited == SelectSeq([i \in 1 .. Len(ob.meshes) |-> i],
                            LAMBDA i : s.mats[ob.meshes[i]].isCloned)
    IN  [k \in 1 .. Len(edited) |->
            Channels(s.mats[ob.meshes[edited[k]]])
                @@ [childName |-> ChildName(ob.names[edited[k]])]]

\* _serializeObject without the rotation.
_serializeObject_noRotation(s, ob) ==
    [furnitureData |-> ob.fd,
     furniturePath |-> IF ob.furniturePath # "" THEN ob.furniturePath ELSE ob.fd.path,
     position |-> <<ob.x, ob.y, ob.z>>, rotation |-> 0, scale |-> ob.scale,
     materialMods |-> _serializeMaterialMods(s, ob)]

\* _serializeObject: the legacy top-level path is userData.furniturePath when the
\* item has one, else the path of its furnitureData.
_serializeObject(s, ob) ==
    [furnitureData |-> ob.fd,
     furniturePath |-> IF ob.furniturePath # "" THEN ob.furniturePath ELSE ob.fd.path,
     position |-> <<ob.x, ob.y, ob.z>>, rotation |-> ob.rot, scale |-> ob.scale,
     materialMods |-> _serializeMaterialMods(s, ob)]

\* saveLayout: FALSE when nothing is placed.
saveLayout(s) ==
    IF s.appPlaced = <<>> THEN s
    ELSE [s EXCEPT !.stored =
            [present |-> TRUE, parses |-> TRUE, listed |-> TRUE,
             objects |-> [i \in 1 .. Len(s.appPlaced) |->
                             _serializeObject(s, s.objs[s.appPlaced[i]])]]]

\* mods.find(m => m.childName === child.name || m.childName === child.uuid) for
\* a mesh of the object under construction: the first entry that carries the
\* mesh's name (0 when there is none).  The uuid of the mesh was drawn after the
\* document was written, so no entry carries it.
FindMod(mods, name) ==
    IF \E k \in 1 .. Len(mods) : mods[k].childName = name
    THEN CHOOSE k \in 1 .. Len(mods) :
            /\ mods[k].childName = name
            /\ \A j \in 1 .. k - 1 : mods[j].childName # name
    ELSE 0

\* One step of _applyMaterialMods' traverse: mesh i of object o.
ApplyModToMesh(s, o, i, mods) ==
    LET k == FindMod(mods, s.objs[o].names[i])
        s1 == CloneMaterial(s, o, i)
    IN  IF k = 0 THEN s
        ELSE [s1 EXCEPT !.mats[Meshes(s1, o)[i]] =
                [@ EXCEPT !.color = mods[k].color, !.metalness = mods[k].metalness,
                          !.roughness = mods[k].roughness, !.opacity = mods[k].opacity,
                          !.transparent = mods[k].opacity < 100]]

RECURSIVE ApplyModsFrom(_, _, _, _)
ApplyModsFrom(s, o, i, mods) ==
    IF i > Len(Meshes(s, o)) THEN s
    ELSE ApplyModsFrom(ApplyModToMesh(s, o, i, mods), o, i + 1, mods)

\* _applyMaterialMods
_applyMaterialMods(s, o, mods) == ApplyModsFrom(s, o, 1, mods)

\* modelPath = objData.furniturePath || objData.furnitureData?.path
ModelPath(objData) ==
    IF objData.furniturePath # "" THEN objData.furniturePath ELSE objData.furnitureData.path

\* _deserializeObject giving up on an object whose load failed.
DeserializeAfterLoad_skipsFailed(s, objData, resolved) ==
    LET o == FreshObj(s)
        restored == [CloneScene(ModelPath(objData), objData.furnitureData) EXCEPT
                        !.id = FreshId(s), !.furniturePath = ModelPath(objData),
                        !.x = objData.position[1], !.y = objData.position[2],
                        !.z = objData.position[3], !.rot = objData.rotation,
                        !.scale = objData.scale]
    IN  IF resolved
        THEN addPlacedObject([Allocate(s, o, restored, <<>>) EXCEPT !.children = Append(@, o)], o)
        ELSE s

\* _deserializeObject from the point its load has settled.
DeserializeAfterLoad(s, objData, resolved) ==
    LET o == FreshObj(s)
        fd == objData.furnitureData
        furniture == IF resolved THEN CloneScene(ModelPath(objData), fd)
                     ELSE _createFallbackPrimitive(s, fd)
        restored == [furniture EXCEPT !.id = FreshId(s), !.furniturePath = ModelPath(objData),
                                      !.x = objData.position[1], !.y = objData.position[2],
                                      !.z = objData.position[3], !.rot = objData.rotation,
                                      !.scale = objData.scale]
        brought == IF resolved THEN <<>>
                   ELSE MeshMaterials(StorageFallbackShape(StorageFallbackType(fd)),
                                      StorageFallbackMaterials(StorageFallbackType(fd)))
        s1 == Allocate(s, o, restored, brought)
        s2 == IF objData.materialMods # <<>>
              THEN _applyMaterialMods(s1, o, objData.materialMods) ELSE s1
    IN  addPlacedObject([s2 EXCEPT !.children = Append(@, o)], o)

\* The loop of loadLayout over the objects still to restore: runs on while the
\* paths are cached, waits at the first that is not, returns true at the end.
RECURSIVE RunLayout(_, _)
RunLayout(s, rest) ==
    IF rest = <<>> THEN [s EXCEPT !.ret = Append(@, TRUE)]
    ELSE IF ModelPath(Head(rest)) \in s.cache
    THEN RunLayout(DeserializeAfterLoad(s, Head(rest), TRUE), Tail(rest))
    ELSE AwaitLoad(s, ModelPath(Head(rest)), [kind |-> "layout", rest |-> rest])

\* _clearCurrentObjects that deselects only.
_clearCurrentObjects_keepsItems(s) == SetSelectedObject(s, Null)

\* _clearCurrentObjects
_clearCurrentObjects(s) ==
    clearPlacedObjects([SetSelectedObject(s, Null) EXCEPT !.children = <<>>])

\* The stored entry is there, parses, and lists at least one object.
LoadVerdict(s) ==
    s.stored.present /\ s.stored.parses /\ s.stored.listed /\ s.stored.objects # <<>>

\* hasSavedLayout
hasSavedLayout(s) ==
    IF ~s.stored.present THEN FALSE
    ELSE IF ~s.stored.parses THEN FALSE
    ELSE s.stored.listed /\ s.stored.objects # <<>>

\* loadLayout clearing before it looks at the objects list.
loadLayout_clearsFirst(s) ==
    IF ~(s.stored.present /\ s.stored.parses) THEN [s EXCEPT !.ret = Append(@, FALSE)]
    ELSE IF s.stored.listed /\ s.stored.objects # <<>>
    THEN RunLayout(_clearCurrentObjects(s), s.stored.objects)
    ELSE [_clearCurrentObjects(s) EXCEPT !.ret = Append(@, FALSE)]

\* loadLayout up to its first wait
loadLayout(s) ==
    IF LoadVerdict(s) THEN RunLayout(_clearCurrentObjects(s), s.stored.objects)
    ELSE [s EXCEPT !.ret = Append(@, FALSE)]

\* ActionButtons._loadLayout up to its first wait
_loadLayout(s) == IF hasSavedLayout(s) THEN loadLayout(s) ELSE s

\* clearSavedLayout
clearSavedLayout(s) == [s EXCEPT !.stored = NoDoc]

----------------------------------------------------------------------------
(* FurnitureLoader: a pending load settles *)

\* The continuation of one waiting task, resolved or rejected.
Resume(s, task, resolved) ==
    IF task.kind = "place"
    THEN PlaceAfterLoad(s, task.fd, task.position, resolved)
    ELSE RunLayout(DeserializeAfterLoad(s, Head(task.rest), resolved), Tail(task.rest))

RECURSIVE ResumeAll(_, _, _)
ResumeAll(s, tasks, resolved) ==
    IF tasks = <<>> THEN s
    ELSE ResumeAll(Resume(s, Head(tasks), resolved), Tail(tasks), resolved)

\* The loader's onLoad (resolved) or onError callback for a path: the cache takes
\* the scene, the pending promise is deleted, the waiting tasks continue in the
\* order they began to wait.
SettleLoad(s, path, resolved) ==
    LET s1 == [s EXCEPT !.loading[path] = <<>>,
                        !.cache = IF resolved THEN @ \cup {path} ELSE @]
    IN  ResumeAll(s1, s.loading[path], resolved)

----------------------------------------------------------------------------
(* SelectionSystem: pointer and keyboard handlers *)

\* _startDrag(event, intersectPoint)
_startDrag(s, intersectPoint) ==
    [s EXCEPT !.isDragging = TRUE,
              !.dragOffset = <<intersectPoint[1] - s.objs[s.selSelected].x,
                               intersectPoint[2] - s.objs[s.selSelected].z>>]

\* _endDrag
_endDrag(s) == [s EXCEPT !.isDragging = FALSE]

\* _onMouseDown (left button, not over the UI): furniture is the item owning the
\* nearest mesh the ray hits (Null on empty space), intersectPoint the hit point.
_onMouseDown(s, furniture, intersectPoint) ==
    IF furniture # Null
    THEN IF furniture = s.selSelected
         THEN _startDrag(s, intersectPoint)
         ELSE select(s, furniture)
    ELSE IF ~s.isDragging THEN deselect(s) ELSE s

\* _onMouseMove: point is the intersection of the pointer ray with the drag plane,
\* NoPoint when the ray misses the plane.
_onMouseMove(s, point) ==
    IF ~s.isDragging \/ s.selSelected = Null THEN s
    ELSE IF point = NoPoint THEN s
    ELSE LET newPosition == <<point[1] - s.dragOffset[1], point[2] - s.dragOffset[2]>>
             constrainedPos == _constrainToRoom(s, newPosition)
         IN  [s EXCEPT !.objs[s.selSelected].x = constrainedPos[1],
                       !.objs[s.selSelected].z = constrainedPos[2]]

\* _onMouseUp
_onMouseUp(s) == IF s.isDragging THEN _endDrag(s) ELSE s

\* _onKeyDown
_onKeyDown(s, key) ==
    IF s.selSelected = Null THEN s
    ELSE IF key \in {"Delete", "Backspace"} THEN _deleteSelected(s)
    ELSE IF key = "Escape" THEN deselect(s)
    ELSE IF key \in {"r", "R"} THEN [s EXCEPT !.objs[s.selSelected].rot = @ + 1]
    ELSE s

----------------------------------------------------------------------------
(* ActionButtons, PropertiesPanel, MenuPanel *)

\* ActionButtons._deleteSelected leaving the item in the shared list.
ButtonDeleteSelected_keepsListed(s) ==
    IF s.appSelected = Null THEN s
    ELSE LET selected == s.appSelected
             s1 == SetSelectedObject(s, Null)
         IN  [s1 EXCEPT !.children = Remove(@, selected)]

\* ActionButtons._deleteSelected
ButtonDeleteSelected(s) ==
    IF s.appSelected = Null THEN s
    ELSE LET selected == s.appSelected
             s1 == SetSelectedObject(s, Null)
             s2 == [s1 EXCEPT !.children = Remove(@, selected)]
         IN  removePlacedObject(s2, selected)

\* _resetLayout emptying the container without clearing the shared list.
_resetLayout_keepsSharedList(s) ==
    IF s.children = <<>> THEN s
    ELSE [SetSelectedObject(s, Null) EXCEPT !.children = <<>>]

\* ActionButtons._resetLayout
_resetLayout(s) ==
    IF s.children = <<>> THEN s
    ELSE clearPlacedObjects([SetSelectedObject(s, Null) EXCEPT !.children = <<>>])

\* _duplicateObject falling back on the last placed item when none is selected.
_duplicateObject_lastPlaced(s) ==
    IF s.panelSelected = Null /\ s.children = <<>> THEN s
    ELSE LET picked == IF s.panelSelected = Null THEN s.children[Len(s.children)]
                       ELSE s.panelSelected
             o == FreshObj(s)
             clone == [s.objs[picked] EXCEPT !.x = @ + DuplicateOffset,
                                             !.z = @ + DuplicateOffset]
             s1 == [s EXCEPT !.objs[o] = clone, !.children = Append(@, o)]
         IN  IF picked \in Range(s.children) /\ HasFreshObj(s)
             THEN SetSelectedObject(addPlacedObject(s1, o), o)
             ELSE s

\* PropertiesPanel._duplicateObject: Object3D.clone() copies the transform and the
\* geometry and keeps the material references; userData is copied field by field.
_duplicateObject(s) ==
    IF s.panelSelected = Null THEN s
    ELSE LET o == FreshObj(s)
             src == s.objs[s.panelSelected]
             clone == [src EXCEPT !.x = @ + DuplicateOffset, !.z = @ + DuplicateOffset]
         IN  IF s.panelSelected \in Range(s.children)
             THEN LET s1 == [s EXCEPT !.objs[o] = clone, !.children = Append(@, o)]
                  IN  SetSelectedObject(addPlacedObject(s1, o), o)
             ELSE s

\* MenuPanel._selectItem: clicking the active item again clears it.
_selectItem(s, item) ==
    IF s.activeFurnitureType # NoFurnitureType /\ s.activeFurnitureType.id = item.id
    THEN [s EXCEPT !.activeFurnitureType = NoFurnitureType]
    ELSE [s EXCEPT !.activeFurnitureType = item]

\* The close button of the properties panel.
PanelClose(s) == SetSelectedObject(s, Null)

----------------------------------------------------------------------------
(* Specification *)

\* Objects the pending tasks will still create.
RECURSIVE PendingIn(_)
PendingIn(tasks) ==
    IF tasks = <<>> THEN 0
    ELSE (IF Head(tasks).kind = "place" THEN 1 ELSE Len(Head(tasks).rest)) + PendingIn(Tail(tasks))

RECURSIVE PendingOver(_, _)
PendingOver(s, ps) ==
    IF ps = {} THEN 0
    ELSE LET p == CHOOSE q \in ps : TRUE
         IN  PendingIn(s.loading[p]) + PendingOver(s, ps \ {p})

\* Identities left for new objects once every pending task has created its own.
Capacity(s) == MaxItems - Cardinality(ObjRefs(s)) - PendingOver(s, Paths)

\* The state after construction when the stored entry is doc.
InitWith(doc) ==
    /\ objs = [o \in ObjIds |-> NoObj]
    /\ mats = [m \in MatIds |-> IF m \in AssetMatIds THEN AssetMaterial(m) ELSE NoMat]
    /\ children = <<>>
    /\ appPlaced = <<>>
    /\ psPlaced = <<>>
    /\ appSelected = Null
    /\ selSelected = Null
    /\ panelSelected = Null
    /\ highlightHelper = Null
    /\ originalMaterials = <<>>
    /\ originalColors = <<>>
    /\ isDragging = FALSE
    /\ dragOffset = <<0, 0>>
    /\ controlsEnabled = TRUE
    /\ psIsLoading = FALSE
    /\ appIsLoading = FALSE
    /\ activeFurnitureType = NoFurnitureType
    /\ cache = {}
    /\ loading = [p \in Paths |-> <<>>]
    /\ stored = doc
    /\ last = [op |-> "init"]

Init == InitWith(NoDoc)

\* A handler ran to its end (or to its first wait) and left s; h is its history entry.
Handled(s, h) == Commit([s EXCEPT !.last = h @@ [ret |-> s.ret]])

\* No load is pending.
Quiet == \A p \in Paths : loading[p] = <<>>

\* The loadLayout calls of the run of handlers under way that consists of load
\* button presses and settling loads only and began with no load pending: 0 when
\* no such run is under way, 2 for two or more.
Chain == IF last.op \in {"load", "settle"} THEN last.chain ELSE 0

\* Catalog linkage and transform of the items of list q, in order.
Layout(s, q) ==
    [i \in 1 .. Len(q) |->
        [fd |-> s.objs[q[i]].fd,
         position |-> <<s.objs[q[i]].x, s.objs[q[i]].y, s.objs[q[i]].z>>,
         rotation |-> s.objs[q[i]].rot, scale |-> s.objs[q[i]].scale]]

\* The material deltas of the items of list q, in order: for each item the
\* channels of its sub-meshes whose material was edited (is marked _isCloned).
Overrides(s, q) ==
    [i \in 1 .. Len(q) |->
        {Channels(s.mats[s.objs[q[i]].meshes[k]]) :
            k \in {j \in 1 .. Len(s.objs[q[i]].meshes) :
                      s.mats[s.objs[q[i]].meshes[j]].isCloned}}]

\* The item, if any, whose clean drag gesture (pointer-down on the selected item,
\* then pointer-moves only) is under way.
Gesture == IF last.op \in {"dragstart", "dragmove"} THEN last.item ELSE Null

\* The emissive state of the material of each mesh of item o.
EmissiveOf(s, o) == [i \in DOMAIN s.objs[o].meshes |-> s.mats[s.objs[o].meshes[i]]]

\* A click on a palette item.
SelectItem(item) ==
    Handled(_selectItem(Cur, item), [op |-> "selectItem"])

\* A double-click whose pointer ray meets the floor plane at point (or misses it).
DoubleClick(point) ==
    /\ DoubleClickVerdict(Cur, point) = "accepted" => Capacity(Cur) >= 1
    /\ Handled(_onDoubleClick(Cur, point),
               [op |-> "dblclick", verdict |-> DoubleClickVerdict(Cur, point), point |-> point])

\* The pending load of a path resolves or rejects.
Settle(path, resolved) ==
    /\ loading[path] # <<>>
    /\ Handled(SettleLoad(Cur, path, resolved),
               [op |-> "settle", path |-> path, resolved |-> resolved, chain |-> Chain,
                saved |-> IF Chain = 1 THEN last.saved ELSE <<>>,
                edits |-> IF Chain = 1 THEN last.edits ELSE <<>>])

\* A left pointer-down on the canvas hitting an item at its position plus offset.
MouseDownOn(furniture, offset) ==
    /\ furniture \in Range(children)
    /\ Handled(_onMouseDown(Cur, furniture,
                   <<objs[furniture].x + offset[1], objs[furniture].z + offset[2]>>),
               IF furniture = selSelected
               THEN [op |-> "dragstart", item |-> furniture]
               ELSE [op |-> "pick", item |-> furniture, from |-> selSelected,
                     before |-> EmissiveOf(Cur, furniture)])

\* The perspective camera the pointer rays start from (x, height, z): in front of
\* the room and above every item.
CameraPosition == [x |-> 0, y |-> 550, z |-> 1000]

\* The point where the pointer ray that passes through the point hit = <<x, z>>
\* at the given height meets the floor plane (Ray.intersectPlane with dragPlane).
FloorPoint(hit, height) ==
    <<hit[1] + ((hit[1] - CameraPosition.x) * height) \div (CameraPosition.y - height),
      hit[2] + ((hit[2] - CameraPosition.z) * height) \div (CameraPosition.y - height)>>

\* A left pointer-down on the canvas whose ray first hits a surface of the item at
\* the given height, over the item's position plus offset.  The history of a drag
\* start keeps the floor point under the pointer.
MouseDownOnSurface(furniture, offset, height) ==
    /\ furniture \in Range(children)
    /\ LET hit == <<objs[furniture].x + offset[1], objs[furniture].z + offset[2]>>
       IN  Handled(_onMouseDown(Cur, furniture, hit),
                   IF furniture = selSelected
                   THEN [op |-> "dragstart", item |-> furniture,
                         floor |-> FloorPoint(hit, height)]
                   ELSE [op |-> "pick", item |-> furniture, from |-> selSelected,
                         before |-> EmissiveOf(Cur, furniture)])

\* A left pointer-down on the canvas hitting no item.
MouseDownEmpty ==
    Handled(_onMouseDown(Cur, Null, NoPoint), [op |-> "mousedown_empty"])

\* A pointer-move whose ray meets the drag plane at point (or misses it).
MouseMove(point) ==
    Handled(_onMouseMove(Cur, point),
            IF Gesture # Null /\ Gesture = selSelected /\ isDragging
            THEN [op |-> "dragmove", item |-> Gesture, point |-> point]
            ELSE [op |-> "mousemove"])

\* A pointer release over the canvas.
MouseUp ==
    Handled(_onMouseUp(Cur),
            [op |-> "mouseup", ended |-> isDragging,
             item |-> IF isDragging /\ Gesture = selSelected THEN Gesture ELSE Null])

\* A key press.
KeyDown(key) ==
    /\ (key = "r" /\ selSelected # Null) => objs[selSelected].rot < MaxRot
    /\ Handled(_onKeyDown(Cur, key), [op |-> "key", key |-> key])

\* The delete button.
ButtonDelete ==
    Handled(ButtonDeleteSelected(Cur), [op |-> "buttonDelete", had |-> appSelected # Null])

\* The reset button.
ButtonReset ==
    Handled(_resetLayout(Cur), [op |-> "reset", ran |-> children # <<>>])

\* The duplicate button of the properties panel.
Duplicate ==
    /\ panelSelected # Null => Capacity(Cur) >= 1
    /\ Handled(_duplicateObject(Cur), [op |-> "duplicate"])

\* The close button of the properties panel.
ClosePanel ==
    /\ panelSelected # Null
    /\ Handled(PanelClose(Cur), [op |-> "closePanel"])

\* The channels of the meshes of item o, in traverse order.
ChannelsOf(s, o) == [i \in DOMAIN Meshes(s, o) |-> Channels(s.mats[Meshes(s, o)[i]])]

\* No mesh of item o has a material of its own yet: the panel never edited o.
Unedited(s, o) == \A i \in DOMAIN Meshes(s, o) : ~s.mats[Meshes(s, o)[i]].isCloned

\* The appearance edits of the properties panel.
EditOps == {"applyColor", "applyMaterial", "applyOpacity"}

\* History of an edit: the channels the panel's item had before the first edit of
\* the run of consecutive edits this one belongs to, when that run began on an
\* item never edited before; <<>> otherwise.
Base ==
    IF panelSelected = Null THEN <<>>
    ELSE IF Unedited(Cur, panelSelected) THEN ChannelsOf(Cur, panelSelected)
    ELSE IF last.op \in EditOps /\ last.item = panelSelected THEN last.base
    ELSE <<>>

\* The panel's item has room for a material of its own on every mesh.
CanEdit ==
    panelSelected # Null => Cardinality(FreeMats(Cur)) >= Len(objs[panelSelected].meshes)

\* A call of PlacementSystem.removeObject with an item of getPlacedObjects().
RemoveObject(object) ==
    /\ object \in Range(psPlaced)
    /\ Handled(removeObject(Cur, object), [op |-> "removeObject", item |-> object])

\* A call of PlacementSystem.clearAll (dispose calls it).
ClearAll ==
    Handled(clearAll(Cur), [op |-> "clearAll"])

\* A colour chosen in the properties panel (picker or preset).
ApplyColor(hexColor) ==
    /\ panelSelected # Null =>
          Cardinality(FreeMats(Cur)) >= Len(objs[panelSelected].meshes)
    /\ Handled(_applyColor(Cur, hexColor),
               [op |-> "applyColor", item |-> panelSelected, color |-> hexColor,
                base |-> Base])

\* A preset chosen in the material select of the properties panel.
ApplyMaterial(preset) ==
    /\ CanEdit
    /\ Handled(_applyMaterial(Cur, preset),
               [op |-> "applyMaterial", item |-> panelSelected, base |-> Base])

\* The opacity slider of the properties panel moved to opacity (hundredths).
ApplyOpacity(opacity) ==
    /\ CanEdit
    /\ Handled(_applyOpacity(Cur, opacity),
               [op |-> "applyOpacity", item |-> panelSelected, base |-> Base])

\* The reset colour button of the properties panel.
ResetColor ==
    Handled(_resetColor(Cur),
            [op |-> "resetColor", item |-> panelSelected,
             had |-> panelSelected \in DOMAIN originalColors])

\* The save button.
ButtonSave ==
    Handled(saveLayout(Cur), [op |-> "save", ok |-> appPlaced # <<>>])

\* The load button.  The history tells whether the stored document is the one a
\* save of the present layout writes, and keeps that layout.
ButtonLoad ==
    /\ hasSavedLayout(Cur) =>
          Capacity(_clearCurrentObjects(Cur)) >= Len(stored.objects)
    /\ \E chain \in {IF ~hasSavedLayout(Cur) THEN 0
                     ELSE IF Quiet THEN 1
                     ELSE IF Chain >= 1 THEN 2 ELSE 0} :
          Handled(_loadLayout(Cur),
                  [op |-> "load", ok |-> hasSavedLayout(Cur), chain |-> chain,
                   saved |-> IF chain = 1 /\ saveLayout(Cur).stored = stored
                             THEN Layout(Cur, appPlaced) ELSE <<>>,
                   edits |-> IF chain = 1 /\ saveLayout(Cur).stored = stored
                             THEN Overrides(Cur, appPlaced) ELSE <<>>])

\* A call of StorageManager.loadLayout itself.
CallLoadLayout ==
    /\ LoadVerdict(Cur) =>
          Capacity(_clearCurrentObjects(Cur)) >= Len(stored.objects)
    /\ Handled(loadLayout(Cur), [op |-> "loadLayout"])

\* The clear-storage button.
ButtonClear ==
    /\ stored.present
    /\ Handled(clearSavedLayout(Cur), [op |-> "clearStorage"])

\* Inputs of the lifecycle specification: two catalog entries, their assets present
\* or missing, one floor point and a ray that misses the floor.  Pointer-downs hit
\* an item at its origin.
MainCatalog == {CatChair, CatTable}
MainPoints == {<<0, 0>>}
HitOffsets == {<<0, 0>>}
Keys == {"Delete", "Escape"}

Next ==
    \/ \E item \in MainCatalog : SelectItem(item)
    \/ \E point \in MainPoints \cup {NoPoint} : DoubleClick(point)
    \/ \E path \in Paths, resolved \in BOOLEAN : Settle(path, resolved)
    \/ \E furniture \in ObjIds, offset \in HitOffsets : MouseDownOn(furniture, offset)
    \/ MouseDownEmpty
    \/ \E point \in MainPoints \cup {NoPoint} : MouseMove(point)
    \/ MouseUp
    \/ \E key \in Keys : KeyDown(key)
    \/ ButtonDelete
    \/ ButtonReset
    \/ Duplicate
    \/ ClosePanel
    \/ ButtonSave
    \/ ButtonLoad
    \/ ButtonClear

Spec == Init /\ [][Next]_vars

\* Inputs of the placement specification: every catalog entry, floor points on both
\* sides of the coarse limit and a ray that misses the floor.
PlacePoints == {<<400, 400>>, <<450, -450>>, <<451, 0>>, <<0, -451>>, <<490, 490>>}

NextPlace ==
    \/ \E item \in Catalog : SelectItem(item)
    \/ \E point \in PlacePoints \cup {NoPoint} : DoubleClick(point)
    \/ \E path \in Paths, resolved \in BOOLEAN : Settle(path, resolved)
    \/ \E furniture \in ObjIds, offset \in HitOffsets : MouseDownOn(furniture, offset)
    \/ KeyDown("Delete")
    \/ ButtonReset

SpecPlace == Init /\ [][NextPlace]_vars

\* Inputs of the geometry specification: a table and an item whose scaled footprint
\* is wider than the room, two floor points, and pointer-moves to the room centre
\* and far outside the room.
GeoCatalog == {CatTable, CatRug}
GeoPoints == {<<400, 400>>, <<450, -450>>}
GeoMoves == {<<0, 0>>, <<10000, 10000>>}

NextGeo ==
    \/ \E item \in GeoCatalog : SelectItem(item)
    \/ \E point \in GeoPoints : DoubleClick(point)
    \/ \E path \in Paths, resolved \in BOOLEAN : Settle(path, resolved)
    \/ \E furniture \in ObjIds, offset \in HitOffsets : MouseDownOn(furniture, offset)
    \/ \E point \in GeoMoves : MouseMove(point)
    \/ MouseUp
    \/ KeyDown("r")
    \/ Duplicate

SpecGeo == Init /\ [][NextGeo]_vars

\* Stored entries the running application did not write: one that does not parse, one
\* without an objects list, one with an empty list, and one of the legacy format
\* whose top-level path differs from the path of its nested furniture data.
CorruptDoc == [present |-> TRUE, parses |-> FALSE, listed |-> FALSE, objects |-> <<>>]
UnlistedDoc == [present |-> TRUE, parses |-> TRUE, listed |-> FALSE, objects |-> <<>>]
EmptyDoc == [present |-> TRUE, parses |-> TRUE, listed |-> TRUE, objects |-> <<>>]
LegacyDoc ==
    [present |-> TRUE, parses |-> TRUE, listed |-> TRUE,
     objects |-> <<[furnitureData |-> CatTable, furniturePath |-> "rug01",
                    position |-> <<0, 0, 0>>, rotation |-> 0, scale |-> 1000,
                    materialMods |-> <<>>]>>]

\* The entry an earlier session saved: a rotated table and the scaled item.
SessionDoc ==
    [present |-> TRUE, parses |-> TRUE, listed |-> TRUE,
     objects |-> <<[furnitureData |-> CatTable, furniturePath |-> "table01",
                    position |-> <<400, 5, 400>>, rotation |-> 1, scale |-> 1000,
                    materialMods |-> <<>>],
                   [furnitureData |-> CatRug, furniturePath |-> "rug01",
                    position |-> <<0, 0, 0>>, rotation |-> 0, scale |-> 3000,
                    materialMods |-> <<>>]>>]

ExternalDocs == {CorruptDoc, UnlistedDoc, EmptyDoc, LegacyDoc, SessionDoc}

\* Inputs of the storage specification: the application starts with no stored
\* entry or with one of the entries above; the table and the item the placement
\* scales, one floor point, the rotate shortcut, the save and load buttons and
\* direct calls of loadLayout.
StoreCatalog == {CatTable, CatRug}
StorePoints == {<<400, 400>>}

NextStore ==
    \/ \E item \in StoreCatalog : SelectItem(item)
    \/ \E point \in StorePoints : DoubleClick(point)
    \/ \E path \in Paths, resolved \in BOOLEAN : Settle(path, resolved)
    \/ \E furniture \in ObjIds, offset \in HitOffsets : MouseDownOn(furniture, offset)
    \/ KeyDown("r")
    \/ ButtonSave
    \/ ButtonLoad
    \/ CallLoadLayout

InitStore == \E doc \in ExternalDocs \cup {NoDoc} : InitWith(doc)

SpecStore == InitStore /\ [][NextStore]_vars

\* Inputs of the appearance specification: the table and the rug, their assets
\* present or missing, one floor point, pointer-downs on the items, one colour
\* of the panel (#ff0000), the save and load buttons.
PaintCatalog == {CatTable, CatRug}
PaintColors == {16711680}

NextPaint ==
    \/ \E item \in PaintCatalog : SelectItem(item)
    \/ \E point \in StorePoints : DoubleClick(point)
    \/ \E path \in Paths, resolved \in BOOLEAN : Settle(path, resolved)
    \/ \E o \in ObjIds : MouseDownOn(o, <<0, 0>>)
    \/ \E c \in PaintColors : ApplyColor(c)
    \/ ButtonSave
    \/ ButtonLoad

SpecPaint == Init /\ [][NextPaint]_vars

\* Inputs of the editing specification: the rug, whose asset loads; one floor
\* point; pointer-downs on the items; one colour, one preset and one slider
\* position of the panel; the reset colour and duplicate buttons.
EditCatalog == {CatRug}
Presets == {"glossy"}
Opacities == {50}

NextEdit ==
    \/ \E item \in EditCatalog : SelectItem(item)
    \/ \E point \in StorePoints : DoubleClick(point)
    \/ \E path \in Paths : Settle(path, TRUE)
    \/ \E o \in ObjIds : MouseDownOn(o, <<0, 0>>)
    \/ \E c \in PaintColors : ApplyColor(c)
    \/ \E preset \in Presets : ApplyMaterial(preset)
    \/ \E opacity \in Opacities : ApplyOpacity(opacity)
    \/ ResetColor
    \/ Duplicate

SpecEdit == Init /\ [][NextEdit]_vars

\* The editing inputs without the duplicate button, with the save and load buttons.
NextOpacity ==
    \/ \E item \in EditCatalog : SelectItem(item)
    \/ \E point \in StorePoints : DoubleClick(point)
    \/ \E path \in Paths : Settle(path, TRUE)
    \/ \E o \in ObjIds : MouseDownOn(o, <<0, 0>>)
    \/ \E c \in PaintColors : ApplyColor(c)
    \/ \E opacity \in Opacities : ApplyOpacity(opacity)
    \/ ResetColor
    \/ ButtonSave
    \/ ButtonLoad

SpecOpacity == Init /\ [][NextOpacity]_vars

\* Inputs of the removal specification: the rug, whose asset loads; one floor
\* point; pointer-downs on the items; the Delete key, the delete and reset
\* buttons, and calls of removeObject and clearAll of the placement system.
NextRemove ==
    \/ \E item \in EditCatalog : SelectItem(item)
    \/ \E point \in StorePoints : DoubleClick(point)
    \/ \E path \in Paths : Settle(path, TRUE)
    \/ \E o \in ObjIds : MouseDownOn(o, <<0, 0>>)
    \/ MouseUp
    \/ KeyDown("Delete")
    \/ ButtonDelete
    \/ ButtonReset
    \/ \E o \in ObjIds : RemoveObject(o)
    \/ ClearAll

SpecRemove == Init /\ [][NextRemove]_vars

\* Inputs of the no-selection specification: the editing inputs with the Escape
\* key and pointer-moves to the room centre; the duplicate button is pressed only
\* while the panel has no item (SpecEdit has the duplicates of a selection).
NextIdle ==
    \/ \E item \in EditCatalog : SelectItem(item)
    \/ \E point \in StorePoints : DoubleClick(point)
    \/ \E path \in Paths : Settle(path, TRUE)
    \/ \E o \in ObjIds : MouseDownOn(o, <<0, 0>>)
    \/ \E point \in MainPoints : MouseMove(point)
    \/ KeyDown("Escape")
    \/ \E c \in PaintColors : ApplyColor(c)
    \/ \E preset \in Presets : ApplyMaterial(preset)
    \/ \E opacity \in Opacities : ApplyOpacity(opacity)
    \/ ResetColor
    \/ panelSelected = Null /\ Duplicate

SpecIdle == Init /\ [][NextIdle]_vars

\* Inputs of the drag-offset specification: the chair and the table placed at the
\* room centre; pointer-downs whose ray hits the item on the floor line or on a
\* surface above the floor; pointer-moves at those pointer positions; releases.
HitHeights == {0, 50}

NextDrag ==
    \/ \E item \in MainCatalog : SelectItem(item)
    \/ \E point \in MainPoints : DoubleClick(point)
    \/ \E path \in Paths : Settle(path, TRUE)
    \/ \E o \in ObjIds, offset \in HitOffsets, height \in HitHeights :
          MouseDownOnSurface(o, offset, height)
    \/ \E point \in MainPoints, height \in HitHeights : MouseMove(FloorPoint(point, height))
    \/ MouseUp

SpecDrag == Init /\ [][NextDrag]_vars

\* Inputs of the loading specification: the chair and the entry without a name
\* (both name the chair's asset), one floor point and a ray that misses the floor,
\* pointer-downs, the Delete key and the reset button.  Fairness: every asset load
\* that is pending eventually resolves or rejects.
LoadCatalog == {CatChair, CatNameless}

NextLoading ==
    \/ \E item \in LoadCatalog : SelectItem(item)
    \/ \E point \in MainPoints \cup {NoPoint} : DoubleClick(point)
    \/ \E path \in Paths, resolved \in BOOLEAN : Settle(path, resolved)
    \/ \E furniture \in ObjIds, offset \in HitOffsets : MouseDownOn(furniture, offset)
    \/ KeyDown("Delete")
    \/ ButtonReset

\* The pending load of path settles: what a step Settle(path, resolved) does to
\* the loader's table of pending loads, and no other step of NextLoading does.
LoadSettles(path) ==
    /\ loading[path] # <<>>
    /\ loading' = [loading EXCEPT ![path] = <<>>]

AssetLoadsSettle == \A path \in Paths : WF_loading(LoadSettles(path))

SpecLoading == Init /\ [][NextLoading]_vars /\ AssetLoadsSettle

\* Inputs of the vocabulary specification: a catalog (furniture.json) whose display
\* names contain each word the two fallbacks look for, alone and in pairs that
\* exercise the precedence, and a name with none of them.  Every entry has the
\* rug's asset, present or missing; one floor point, the save and load buttons.
VocabNames ==
    <<{"chair"}, {"arm"}, {"table"}, {"couch"}, {"sofa"}, {"bed"}, {"cabinet"},
      {"cupboard"}, {"wardrobe"}, {"arm", "chair"}, {"bed", "table"}, {"sofa", "bed"},
      {"table", "cabinet"}, {}>>

VocabCatalog ==
    {[id |-> 100 + k, path |-> "rug01", words |-> VocabNames[k]] : k \in 1 .. Len(VocabNames)}

NextVocab ==
    \/ \E item \in VocabCatalog : SelectItem(item)
    \/ \E point \in StorePoints : DoubleClick(point)
    \/ \E resolved \in BOOLEAN : Settle("rug01", resolved)
    \/ ButtonSave
    \/ ButtonLoad

SpecVocab == Init /\ [][NextVocab]_vars

----------------------------------------------------------------------------
(* Properties: selection *)

\* The placed items: the children of the furniture container.
Placed == Range(children)

\* The placed items whose userData.isSelected is true.
Flagged == {o \in Placed : objs[o].isSelected}

\* Item o carries the highlight tint: a mesh of it renders with the selection
\* emissive colour.
Tinted(o) ==
    \E i \in DOMAIN objs[o].meshes : mats[objs[o].meshes[i]].emissive = selectedEmissive

\* C1: between handlers, whatever sequence of pick, deselect, duplicate, delete,
\* reset, load and placement has run, at most one placed item has
\* userData.isSelected true.
C1_AtMostOneFlagged == Cardinality(Flagged) <= 1

\* A pick has just moved the selection from one placed item to another: the new
\* item alone carries the flag.
C1_Witness ==
    /\ last.op = "pick"
    /\ last.from # Null
    /\ last.from \in Placed
    /\ last.from # last.item
    /\ Flagged = {last.item}

\* C2: in no state do two placed items carry the highlight tint at once, for every
\* pair of items, pairs whose meshes reference the same material instance included.
C2_AtMostOneTinted == Cardinality({o \in Placed : Tinted(o)}) <= 1

\* C3: a pick of an item followed at once by its deselection leaves the material of
\* every mesh of the item with the emissive colour and intensity it had before the
\* pick.
C3_SelectDeselectRestores ==
    [][(/\ last.op = "pick"
        /\ selSelected = last.item
        /\ selSelected' = Null
        /\ last.item \in Range(children'))
       => (last.before = [i \in DOMAIN objs'[last.item].meshes |->
                              mats'[objs'[last.item].meshes[i]]])]_vars

\* C4: whenever the selection engine is dragging, the orbit-camera controller is
\* disabled.
C4_OrbitDisabledWhileDragging == isDragging => ~controlsEnabled

----------------------------------------------------------------------------
(* Properties: placement *)

\* The floor point is inside the room rectangle reduced by the placement margin.
InCoarseBounds(point) ==
    /\ Abs(point[1]) <= (RoomWidth \div 2) - PlacementMargin
    /\ Abs(point[2]) <= (RoomDepth \div 2) - PlacementMargin

\* The placement tasks that wait for a load.
PlacePending(l) ==
    {<<path, i>> \in Paths \X (1 .. MaxItems + 1) :
        i <= Len(l[path]) /\ l[path][i].kind = "place"}

\* C8: a double-click with an active item, no load pending and a floor point is
\* accepted (its load starts, or its item is inserted at once) iff the point
\* satisfies |x| <= width/2 - 0.5 and |z| <= depth/2 - 0.5, whatever the item.
C8_AcceptedIffInCoarseBounds ==
    [][(/\ last'.op = "dblclick"
        /\ activeFurnitureType # NoFurnitureType
        /\ ~psIsLoading
        /\ last'.point # NoPoint)
       => ((psIsLoading' \/ Len(psPlaced') = Len(psPlaced) + 1)
              <=> InCoarseBounds(last'.point))]_vars

\* A request for the item that is wider than the room has just been accepted at the
\* corner of the coarse rectangle.
C8_Witness ==
    /\ last.op = "dblclick"
    /\ last.point = <<450, -450>>
    /\ activeFurnitureType = CatRug
    /\ psIsLoading \/ (psPlaced # <<>> /\ objs[psPlaced[Len(psPlaced)]].fd = CatRug)

\* C9: a double-click that is rejected (no active item, no floor intersection, a
\* point outside the coarse bounds, or a load pending) changes nothing: the
\* container, the objects and their materials, both placed lists, the selected
\* references, the loading flags and the pending loads stay as they were.
C9_RejectedIsNoOp ==
    [][(/\ last'.op = "dblclick"
        /\ \/ activeFurnitureType = NoFurnitureType
           \/ psIsLoading
           \/ last'.point = NoPoint
           \/ ~InCoarseBounds(last'.point))
       => UNCHANGED <<objs, mats, children, appPlaced, psPlaced, appSelected, selSelected,
                      panelSelected, highlightHelper, originalMaterials, isDragging,
                      psIsLoading, appIsLoading, activeFurnitureType, cache, loading,
                      stored>>]_vars

\* A request outside the coarse bounds has just been rejected while an item is
\* placed and selected.
C9_Witness ==
    /\ last.op = "dblclick"
    /\ last.verdict = "out_of_bounds"
    /\ selSelected \in Placed

\* C10: at most one placement waits for its load; a double-click while the
\* placement engine is loading starts no load and inserts nothing; and when the
\* pending load settles the placement engine inserts exactly one item.
C10_SinglePlacementInFlight ==
    [][/\ Cardinality(PlacePending(loading')) <= 1
       /\ (last'.op = "dblclick" /\ psIsLoading)
             => UNCHANGED <<loading, children, appPlaced, psPlaced, psIsLoading>>
       /\ (last'.op = "settle" /\ PlacePending(loading) # {}
               /\ \E k \in PlacePending(loading) : k[1] = last'.path)
             => /\ Len(psPlaced') = Len(psPlaced) + 1
                /\ psPlaced'[Len(psPlaced')] \in Range(children')
                /\ ~psIsLoading'
                /\ PlacePending(loading') = {}]_vars

\* A request has just been rejected while the load of a placement is pending and
\* an item is already placed.
C10_Witness ==
    /\ last.op = "dblclick"
    /\ last.verdict = "loading"
    /\ Cardinality(PlacePending(loading)) = 1
    /\ children # <<>>

----------------------------------------------------------------------------
(* Properties: room bounds *)

\* The footprint of the item fits inside the room rectangle reduced by the drag
\* margin.
FitsRoom(ob) ==
    /\ HalfSize(ob).x <= (RoomWidth \div 2) - DragMargin
    /\ HalfSize(ob).z <= (RoomDepth \div 2) - DragMargin

\* |x| <= halfWidth - margin - objHalfWidth and |z| <= halfDepth - margin -
\* objHalfDepth, with the current world-space footprint of the item.
WithinRoom(ob) ==
    /\ Abs(ob.x) <= (RoomWidth \div 2) - DragMargin - HalfSize(ob).x
    /\ Abs(ob.z) <= (RoomDepth \div 2) - DragMargin - HalfSize(ob).z

\* C5: after every completed drag (pointer-down on the selected item, zero or more
\* pointer-moves, pointer-up) of an item whose footprint fits inside the room, the
\* item's position is within the room rectangle reduced by the margin and by half
\* its footprint.
C5_CompletedDragWithinRoom ==
    [][(/\ last'.op = "mouseup"
        /\ last'.item # Null
        /\ FitsRoom(objs'[last'.item]))
       => WithinRoom(objs'[last'.item])]_vars

\* C6: a pointer-move of a drag of an item whose footprint half-extent on an axis
\* exceeds the room's inner half-extent on that axis leaves the item at the room
\* centre (0) on that axis, whatever the candidate position.
C6_DegenerateClampIsCentre ==
    [][last'.op = "dragmove" /\ last'.point # NoPoint
       => /\ HalfSize(objs[last'.item]).x > (RoomWidth \div 2) - DragMargin
                => objs'[last'.item].x = 0
          /\ HalfSize(objs[last'.item]).z > (RoomDepth \div 2) - DragMargin
                => objs'[last'.item].z = 0]_vars

\* C7: every placed item lies within the room's inner bounds reduced by half of
\* its own footprint.
C7_EveryItemWithinRoom == \A o \in Placed : WithinRoom(objs[o])

----------------------------------------------------------------------------
(* Properties: placement outcome *)

\* Occurrences of o in the list q.
Count(q, o) == Cardinality({i \in 1 .. Len(q) : q[i] = o})

\* The placement task that waits for the load of path in the pending loads l.
PlaceTaskOn(l, path) ==
    l[path][CHOOSE i \in 1 .. Len(l[path]) : l[path][i].kind = "place"]

\* The placement engine has just inserted one new item for catalog entry fd: an
\* object nothing referenced, once in the container and once in the shared list,
\* with an id no other live object carries and with fd as its catalog linkage.
InsertedOne(fd) ==
    /\ Len(psPlaced') = Len(psPlaced) + 1
    /\ LET o == psPlaced'[Len(psPlaced')]
       IN  /\ o \notin ObjRefs(Cur)
           /\ Count(children', o) = 1 /\ Count(children, o) = 0
           /\ Count(appPlaced', o) = 1 /\ Count(appPlaced, o) = 0
           /\ objs'[o].fd = fd
           /\ \A p \in ObjIds \ {o} : objs'[p].live => objs'[p].id # objs'[o].id
    /\ ~psIsLoading' /\ ~appIsLoading'

C12_NoInsertAfterReset ==
    [][(/\ last.op = "reset"
        /\ last.ran
        /\ last'.op = "settle"
        /\ \E k \in PlacePending(loading) : k[1] = last'.path)
       => \A o \in Range(children') \cup Range(appPlaced') :
              o \in Range(psPlaced') => o \in Range(psPlaced)]_vars

----------------------------------------------------------------------------
(* Properties: layout load *)

\* A loadLayout call still waits for a load.
LayoutPending(l) ==
    \E path \in Paths : \E i \in 1 .. Len(l[path]) : l[path][i].kind = "layout"

\* The step ends a loadLayout call that ran with nothing interleaved: it began
\* with no load pending, only settling loads followed, and it returns true now.
LoadAloneReturnsTrue ==
    /\ last'.op \in {"load", "settle"}
    /\ last'.chain = 1
    /\ last'.ret = <<TRUE>>

\* C13: when loadLayout returns true with nothing interleaved, the container and
\* the shared placed list hold, in document order, exactly one item per object of
\* the stored document and nothing else, and no item is selected.
C13_LoadReplacesLayout ==
    [][LoadAloneReturnsTrue
       => /\ appPlaced' = children'
          /\ Len(children') = Len(stored.objects)
          /\ Cardinality(Range(children')) = Len(children')
          /\ \A i \in 1 .. Len(children') :
                /\ objs'[children'[i]].fd = stored.objects[i].furnitureData
                /\ ~objs'[children'[i]].isSelected
          /\ appSelected' = Null /\ selSelected' = Null /\ panelSelected' = Null]_vars

\* A load of a two-object document has just returned true, and an item the
\* placement engine had placed before is gone from the container.
C13_Witness ==
    /\ last.op = "settle"
    /\ last.chain = 1
    /\ last.ret = <<TRUE>>
    /\ Len(children) >= 1
    /\ \E o \in Range(psPlaced) : o \notin Placed

\* C14: when loadLayout calls overlap (a second call while the first waits for
\* asset loads) and all have completed, the placed items are exactly one per
\* object of the stored document.
C14_OverlappingLoadsReplace ==
    [][(/\ last'.op = "settle"
        /\ last'.chain >= 1
        /\ ~LayoutPending(loading')
        /\ TRUE \in Range(last'.ret))
       => /\ Len(children') = Len(stored.objects)
          /\ appPlaced' = children']_vars

\* C15: in a loadLayout call, the rejection of the load of an object's asset adds
\* the object as a placeholder and the loop goes on: the call either waits for the
\* next asset or returns true with every object of the document restored.
C15_FailedAssetDoesNotAbort ==
    [][(last'.op = "settle" /\ last'.chain = 1 /\ ~last'.resolved)
       => LET k == Len(children) + 1
          IN  /\ Len(children') >= k
              /\ appPlaced' = children'
              /\ objs'[children'[k]].placeholder
              /\ objs'[children'[k]].fd = stored.objects[k].furnitureData
              /\ IF LayoutPending(loading') THEN last'.ret = <<>>
                 ELSE /\ last'.ret = <<TRUE>>
                      /\ Len(children') = Len(stored.objects)]_vars

\* A load of the two-object document has just returned true with the first
\* object restored as a placeholder and the second from its asset.
C15_Witness ==
    /\ last.op = "settle"
    /\ last.chain = 1
    /\ last.ret = <<TRUE>>
    /\ Len(children) = 2
    /\ objs[children[1]].placeholder
    /\ ~objs[children[2]].placeholder

C17_SaveLoadRoundTrip ==
    [][(LoadAloneReturnsTrue /\ last'.saved # <<>>)
       => Layout([objs |-> objs'], children') = last'.saved]_vars

\* A layout with a rotated, lifted table has just been loaded back with the table
\* rebuilt as a placeholder.
C17_Witness ==
    /\ last.op = "settle"
    /\ last.chain = 1
    /\ last.ret = <<TRUE>>
    /\ last.saved # <<>>
    /\ \E i \in 1 .. Len(children) :
          /\ objs[children[i]].placeholder
          /\ objs[children[i]].rot = 1
          /\ objs[children[i]].y = 5

\* C18: when the stored document is the one a save of the present layout writes,
\* a load that runs alone and returns true leaves every item with the material
\* deltas (colour, metalness, roughness, opacity of its edited sub-meshes) it had,
\* whether the item's sub-meshes are named or not and whether it is rebuilt from
\* its asset or as a placeholder.
C18_SaveLoadKeepsOverrides ==
    [][(LoadAloneReturnsTrue /\ last'.saved # <<>>)
       => Overrides([objs |-> objs', mats |-> mats'], children') = last'.edits]_vars

\* C19: deserialization loads the asset from the path of the nested furniture
\* data: a loadLayout call waits for that path, and the path an item was loaded
\* from (userData.furniturePath) is the path of its furnitureData.
C19_NestedPathPreferred ==
    /\ \A o \in Placed :
          objs[o].furniturePath # "" => objs[o].furniturePath = objs[o].fd.path
    /\ \A path \in Paths : \A i \in 1 .. Len(loading[path]) :
          loading[path][i].kind = "layout"
             => Head(loading[path][i].rest).furnitureData.path = path

----------------------------------------------------------------------------
(* Properties: placeholder vocabulary *)

\* C20: when the load of an object's asset rejects in a loadLayout call, the
\* placeholder built has the type and the shape class the placement engine's
\* fallback gives the object's display name.
C20_SameFallbackType ==
    [][(last'.op = "settle" /\ last'.chain = 1 /\ ~last'.resolved)
       => LET ob == objs'[children'[Len(children) + 1]]
          IN  /\ ob.placeholder
              /\ StorageFallbackType(ob.fd) = PrimitiveType(ob.fd)
              /\ ob.class = PrimitiveShape(PrimitiveType(ob.fd)).class]_vars

----------------------------------------------------------------------------
(* Properties: appearance edits *)

\* The state after the step, as far as the appearance operators read it.
After == [objs |-> objs', mats |-> mats']

\* C21: a reset that follows a run of colour, preset and opacity applications on
\* an item never edited before leaves every mesh of the item with the colour,
\* metalness, roughness and opacity it had before the first of them.
C21_ResetRestoresFirst ==
    [][(/\ last'.op = "resetColor"
        /\ last.op \in EditOps
        /\ last.item # Null
        /\ last.item = last'.item
        /\ last.base # <<>>)
       => ChannelsOf(After, last.item) = last.base]_vars

\* C22: after a reset that found a snapshot of the item, the panel holds no
\* snapshot of that item.
C22_ResetClearsSnapshot ==
    [][(last'.op = "resetColor" /\ last'.had)
       => last'.item \notin DOMAIN originalColors']_vars

\* A material whose transparency flag agrees with its opacity.
Agrees(mat) == mat.transparent = (mat.opacity < 100)

\* The items a load or settle step added to the container: a load button press
\* that runs loadLayout clears the container first.
Added ==
    IF last'.op = "load"
    THEN IF hasSavedLayout(Cur) /\ LoadVerdict(Cur) THEN Range(children') ELSE {}
    ELSE {children'[k] : k \in (Len(children) + 1) .. Len(children')}

C24_EditsStayPrivate ==
    [][(last'.op \in EditOps /\ last'.item # Null)
       => \A o \in Range(children) \ {last'.item} :
             ChannelsOf(After, o) = ChannelsOf(Cur, o)]_vars

----------------------------------------------------------------------------
(* Properties: duplicate and delete *)

\* The placed items that are the original or a copy of item o: _duplicateObject
\* copies userData, so a copy carries the userData.id of its original, and
\* placement gives every item it creates an id of its own.
CopiesOf(o) == {q \in Range(children) \ {o} : objs[q].id = objs[o].id}

\* C26: a colour, preset or opacity application on an item leaves the colour,
\* metalness, roughness and opacity of every mesh of its duplicate, and of the
\* item it was duplicated from, as they were.
C26_DuplicateIsIndependent ==
    [][(last'.op \in EditOps /\ last'.item # Null)
       => \A q \in CopiesOf(last'.item) :
             ChannelsOf(After, q) = ChannelsOf(Cur, q)]_vars

\* C25: the duplicate button pressed on a placed selection adds one new item at
\* the end of the container and of the shared list, at the position of the
\* original plus the offset on x and z; the new item is the selection, the
\* original is not flagged selected and none of its meshes shows the tint.
C25_DuplicateAddsOneSelected ==
    [][(last'.op = "duplicate" /\ panelSelected \in Range(children))
       => LET original == panelSelected
              clone == children'[Len(children')]
          IN  /\ children' = Append(children, clone)
              /\ appPlaced' = Append(appPlaced, clone)
              /\ clone \notin Range(children)
              /\ objs'[clone].x = objs[original].x + DuplicateOffset
              /\ objs'[clone].y = objs[original].y
              /\ objs'[clone].z = objs[original].z + DuplicateOffset
              /\ appSelected' = clone /\ selSelected' = clone
              /\ ~objs'[original].isSelected
              /\ ~Tinted(original)']_vars

\* C27: the delete button pressed with a selection leaves the shared selected
\* reference null, the selected item out of the container and the shared list
\* shorter by one; pressed with no selection it leaves the container and the
\* shared list as they were.
C27_ButtonDeleteRemovesOne ==
    [][last'.op = "buttonDelete"
       => IF appSelected # Null
          THEN /\ appSelected' = Null
               /\ appSelected \notin Range(children')
               /\ Len(children') = Len(children) - 1
               /\ Len(appPlaced') = Len(appPlaced) - 1
          ELSE UNCHANGED <<children, appPlaced, appSelected>>]_vars

\* The delete button has removed the selected one of two placed items.
C27_Witness ==
    /\ last.op = "buttonDelete" /\ last.had
    /\ Len(children) = 1 /\ Len(appPlaced) = 1
    /\ appSelected = Null

\* C28: in every state between handlers, the Delete key and the delete button
\* lead to the same state: the same container and shared list, the same selected
\* references in the selection engine, the shared state and the panel, the same
\* overlay, the same materials (emissive restored) and the same drag flag.
C28_KeyAndButtonDeleteAgree ==
    Collect(_onKeyDown(Cur, "Delete")) = Collect(ButtonDeleteSelected(Cur))

\* An item is selected and highlighted while a drag is under way; deleting it
\* changes the container.
C28_Witness ==
    /\ appSelected # Null /\ selSelected = appSelected
    /\ isDragging /\ highlightHelper # Null
    /\ Collect(ButtonDeleteSelected(Cur)).children # children
    /\ Collect(_onKeyDown(Cur, "Delete")).appSelected = Null

\* C29: between handlers the selected reference of the selection engine and
\* the one of the shared state are null or an item in the container.
C29_SelectedIsPlaced ==
    /\ selSelected \in {Null} \cup Range(children)
    /\ appSelected \in {Null} \cup Range(children)

\* C30: the placed items have pairwise distinct userData.id.
C30_DistinctIds ==
    \A a, b \in Range(children) : a # b => objs[a].id # objs[b].id

----------------------------------------------------------------------------
(* Properties: floor contact, drag gestures, consistency of the lists *)

\* The lowest point of the world-space bounding box of item o.
WorldMinY(o) == objs[o].y + (objs[o].minY * objs[o].scale) \div 1000

\* C31: every placed item, loaded model or placeholder, has the lowest point of
\* its world-space bounding box at floor height 0.
C31_OnFloor == \A o \in Range(children) : WorldMinY(o) = 0

\* C32: the selection engine is dragging only while an item is selected.
C32_DraggingHasSelection == isDragging => selSelected # Null

\* The floor positions of the items of the container.
Positions(s) == [k \in 1 .. Len(s.children) |->
                    <<s.children[k], s.objs[s.children[k]].x, s.objs[s.children[k]].z>>]

\* C33: a pointer-move that directly follows a fresh pick (a pointer-down on an
\* item that was not the selection) moves no item: only a pointer-down on the
\* already selected item starts a drag.
C33_FreshPickIsNotMoved ==
    [][(last.op = "pick" /\ last'.op \in {"mousemove", "dragmove"})
       => Positions([children |-> children', objs |-> objs']) = Positions(Cur)]_vars

\* C34: a pointer-move while the engine is dragging with nothing selected, and a
\* colour, preset or opacity application, a reset or a duplicate while the panel
\* has no item, change no item, no material, neither the container nor the lists
\* (nor any other part of the state).
C34_NothingSelectedNoOp ==
    [][(\/ last'.op \in {"mousemove", "dragmove"} /\ isDragging /\ selSelected = Null
        \/ last'.op \in EditOps \cup {"resetColor"} /\ panelSelected = Null
        \/ last'.op = "duplicate" /\ panelSelected = Null)
       => UNCHANGED <<objs, mats, children, appPlaced, psPlaced, appSelected,
                      selSelected, panelSelected, highlightHelper, originalMaterials,
                      originalColors, isDragging, dragOffset>>]_vars

\* A pointer-move has just been handled while the engine was dragging with
\* nothing selected, two items being placed.
C34_Witness ==
    /\ last.op = "mousemove"
    /\ isDragging /\ selSelected = Null /\ panelSelected = Null
    /\ Len(children) = 2

\* C35: the first pointer-move of a drag, at the pointer position of the
\* pointer-down that started it, leaves the x and z of the dragged item as they
\* were when the item is inside the clamp rectangle, wherever the ray hit it.
C35_NoJumpAtDragStart ==
    [][(/\ last.op = "dragstart" /\ "floor" \in DOMAIN last
        /\ last'.op = "dragmove" /\ last'.point = last.floor
        /\ WithinRoom(objs[last.item]))
       => /\ objs'[last.item].x = objs[last.item].x
          /\ objs'[last.item].z = objs[last.item].z]_vars

\* C36: the set of children of the FurnitureContainer equals the set of items of
\* the shared placed-item list, whatever the interleaving of placements,
\* duplicates, deletes, resets and loads, settled before or after a reset.
C36_IndexMatchesSharedList == Range(children) = Range(appPlaced)

\* A load has just settled and inserted an item after an earlier placed item had
\* been removed from the container.
C36_Witness ==
    /\ last.op = "settle"
    /\ Len(children) = 1 /\ Range(appPlaced) = Range(children)
    /\ Len(psPlaced) = 2 /\ children[1] = psPlaced[2]

\* C37: the selection engine's own selected item equals the shared selected
\* reference, whichever component wrote the shared reference.
C37_EngineFollowsShared == selSelected = appSelected

\* The panel has just duplicated an item and written the copy to the shared
\* reference; the engine has followed and highlights the copy.
C37_Witness ==
    /\ last.op = "duplicate"
    /\ Len(children) = 2 /\ appSelected = children[2]
    /\ selSelected = appSelected /\ highlightHelper = appSelected

\* C38: the loading flags of the PlacementSystem and of AppState are equal in
\* every state, and when the asset loads settle a raised flag is eventually
\* lowered again, also when the insertion throws.
C38_LoadingFlagReturns ==
    /\ [](psIsLoading = appIsLoading)
    /\ (psIsLoading \/ appIsLoading) ~> (~psIsLoading /\ ~appIsLoading)

\* A resolved load has just settled for a placement whose insertion threw:
\* nothing was ever inserted and both flags are down.
C38_Witness ==
    /\ last.op = "settle" /\ last.resolved
    /\ psPlaced = <<>> /\ children = <<>>
    /\ ~psIsLoading /\ ~appIsLoading

\* C39: the PlacementSystem's own list of placed objects holds exactly the
\* children of the FurnitureContainer.
C39_OwnListMatchesIndex == Range(psPlaced) = Range(children)

====
